---- MODULE Spec2Model ----
(***************************************************************************)
(* Model of PerFileParser (src/per_file_parser.py): the line scanner of a  *)
(* Lauterbach .per file, its conditional (sif/elif/else/endif) state       *)
(* machine, the tree/base trackers and the entry extractor.                *)
(*                                                                         *)
(* Text is modelled as follows.  A line is the record of what the code's   *)
(* prefix tests and regular expressions capture from it (its kind and its  *)
(* capture groups).  Captured tokens on which the code computes (offsets,  *)
(* base addresses, register names) are sequences of one-character strings, *)
(* so that int(), rpartition(), startswith(), rstrip() and strip() are     *)
(* computed character by character.  The condition of a sif/elif line is   *)
(* its text, a TLA+ string, which re.findall() scans character by          *)
(* character; CPU identifiers, type tags and tree names are only compared  *)
(* or concatenated and are TLA+ strings, too.  A None/empty name or        *)
(* address (both falsy, and only ever tested for truth) is the empty       *)
(* sequence.                                                               *)
(***************************************************************************)
EXTENDS Integers, Sequences, FiniteSets, TLC

VARIABLES
    file,             \* contents of self.filename: the stripped lines, in order
    cpu,              \* self.cpu
    lines,            \* self.lines
    index,            \* loop variable of parse() (0-based)
    pc,               \* "idle": outside parse(); "loop": inside its for loop
    tree_stack,       \* self.tree_stack
    base_addr,        \* self.base_addr
    condition_stack,  \* self.condition_stack: <<already_matched, should_consider>> frames
    should_consider,  \* self.should_consider
    parsed_data,      \* self.parsed_data
    runs,             \* history: number of parse() calls made so far
    obj_runs,         \* history: number of parse() calls made on the current parser object
    first_output,     \* history: parsed_data when the first parse() returned
    trace,            \* history: per processed line of this run, the flag it was dispatched under
    origin,           \* history: per output entry, <<obj_runs, index>> of the line that produced it
    sifs,             \* history: number of sif lines this parser object processed
    pops              \* history: number of endif lines of this parser object that popped a frame

vars == <<file, cpu, lines, index, pc, tree_stack, base_addr, condition_stack,
          should_consider, parsed_data, runs, obj_runs, first_output, trace, origin,
          sifs, pops>>

----------------------------------------------------------------------------
(* Bounds *)

MaxLines == 4       \* longest file of the free-form conditional family
MaxTreeLines == 4   \* longest file of the tree family
MaxRuns == 2        \* parse() calls in one behaviour

----------------------------------------------------------------------------
(* Python values *)

None == -1          \* the None returned by _calculate_address (addresses are >= 0)

NoneStr == <<>>     \* a None or empty string: falsy

LowerHex == <<"0","1","2","3","4","5","6","7","8","9","a","b","c","d","e","f">>

UpperHex == <<"0","1","2","3","4","5","6","7","8","9","A","B","C","D","E","F">>

IsDigitOfBase(c, base) ==
    \E i \in 1..base : LowerHex[i] = c \/ UpperHex[i] = c

DigitValue(c) ==
    (CHOOSE i \in 1..16 : LowerHex[i] = c \/ UpperHex[i] = c) - 1

\* The digits int(s, base) converts: for base 16 an optional 0x/0X prefix is dropped.
IntDigits(s, base) ==
    IF base = 16 /\ Len(s) >= 2 /\ s[1] = "0" /\ s[2] \in {"x", "X"}
    THEN SubSeq(s, 3, Len(s))
    ELSE s

\* sys.int_info.default_max_str_digits: int() refuses a longer digit string when
\* the base is not a power of two
MaxStrDigits == 4300

\* int(s, base) does not raise ValueError.  (The tokens reaching int() contain
\* only characters of [.x:a-fA-F0-9], so signs, blanks and underscores do not occur.)
IntValid(s, base) ==
    LET d == IntDigits(s, base)
    IN  /\ Len(d) > 0
        /\ \A i \in 1..Len(d) : IsDigitOfBase(d[i], base)
        /\ base = 16 \/ Len(d) <= MaxStrDigits

RECURSIVE DigitsValue(_, _)
DigitsValue(d, base) ==
    IF Len(d) = 0 THEN 0
    ELSE DigitsValue(SubSeq(d, 1, Len(d) - 1), base) * base + DigitValue(d[Len(d)])

\* int(s, base) when it does not raise
int(s, base) == DigitsValue(IntDigits(s, base), base)

\* s.startswith(p)
startswith(s, p) == Len(s) >= Len(p) /\ SubSeq(s, 1, Len(p)) = p

\* c in s
contains(s, c) == \E i \in 1..Len(s) : s[i] = c

\* s.rstrip(c)
RECURSIVE rstrip(_, _)
rstrip(s, c) ==
    IF Len(s) > 0 /\ s[Len(s)] = c THEN rstrip(SubSeq(s, 1, Len(s) - 1), c) ELSE s

\* The characters str.strip() removes (those str.isspace() accepts), as far as a
\* string of this module can hold them: blank, tab, line feed, carriage return,
\* form feed, vertical tab, the separators U+001C..U+001F, next line U+0085, the
\* no-break space U+00A0 and the Ogham space mark U+1680.  (The remaining ones,
\* U+2000..U+200A, U+2028, U+2029, U+202F, U+205F and U+3000, are characters no
\* string of a module can contain.)
Whitespace ==
    {" ", "\t", "\n", "\r", "\f", "", "", "", "", "", "", " ", " "}

\* s.strip()
RECURSIVE strip(_)
strip(s) ==
    IF Len(s) > 0 /\ s[1] \in Whitespace THEN strip(Tail(s))
    ELSE IF Len(s) > 0 /\ s[Len(s)] \in Whitespace THEN strip(SubSeq(s, 1, Len(s) - 1))
    ELSE s

\* the third component of s.rpartition(c): what follows the last c, or s itself
rpartition3(s, c) ==
    IF contains(s, c)
    THEN LET k == CHOOSE i \in 1..Len(s) :
                      s[i] = c /\ \A j \in (i+1)..Len(s) : s[j] # c
         IN  SubSeq(s, k + 1, Len(s))
    ELSE s

\* ": ".join(stack) + ": " if stack else ""
RECURSIVE TreePath(_)
TreePath(stack) ==
    IF Len(stack) = 0 THEN ""
    ELSE TreePath(SubSeq(stack, 1, Len(stack) - 1)) \o stack[Len(stack)] \o ": "

----------------------------------------------------------------------------
(* Lines.  A line is the record of what the scanner's tests capture from it. *)

\* "sif <cond>" / "elif <cond>": cond is cond_str, the text after the keyword
Sif(cond) == [kind |-> "sif", cond |-> cond]

Elif(cond) == [kind |-> "elif", cond |-> cond]

Else == [kind |-> "else"]

Endif == [kind |-> "endif"]

\* tree "<name>"
Tree(name) == [kind |-> "tree", name |-> name]

\* a line starting with "tree" and containing "tree.end"
TreeEnd == [kind |-> "tree.end"]

\* a line starting with "tree" that is neither, e.g. tree.open "<name>"
TreeOther == [kind |-> "tree.other"]

\* base <...>0x<hex>: addr is the captured hex literal
Base(addr) == [kind |-> "base", addr |-> addr]

\* group.<type> (<baseAddr>+<offset>)++0x<size> "<name>": the capture groups of
\* the pattern of _parse_mapped_name; an absent baseAddr or name is NoneStr
Group(type, baseAddr, offset, name) ==
    [kind |-> "group", type |-> type, baseAddr |-> baseAddr, offset |-> offset, name |-> name]

\* line.<label> <offset> "<name>": the look-ahead pattern, name its capture
NameLine(name) == [kind |-> "line", name |-> name]

\* any other line (blank, comment, unsupported directive)
Other == [kind |-> "other"]

\* the text of one comparison of a condition string: lhs=="rhs"
Cmp(lhs, rhs) == lhs \o "==\"" \o rhs \o "\""

\* the comparisons joined by the operator op
RECURSIVE Join(_, _)
Join(terms, op) ==
    IF Len(terms) = 0 THEN ""
    ELSE IF Len(terms) = 1 THEN terms[1]
    ELSE terms[1] \o op \o Join(Tail(terms), op)

\* a condition string: (lhs=="rhs"<op>lhs=="rhs"...)
Cond(terms, op) == "(" \o Join(terms, op) \o ")"

----------------------------------------------------------------------------
(* PerFileParser's methods *)

\* the character class [A-Za-z0-9/] of the pattern of evaluate_condition
IdentChars ==
    {"A", "B", "C", "D", "E", "F", "G", "H", "I", "J", "K", "L", "M", "N", "O", "P", "Q", "R", "S", "T", "U", "V", "W", "X", "Y", "Z"}
        \cup {"a", "b", "c", "d", "e", "f", "g", "h", "i", "j", "k", "l", "m", "n", "o", "p", "q", "r", "s", "t", "u", "v", "w", "x", "y", "z"}
        \cup {"0", "1", "2", "3", "4", "5", "6", "7", "8", "9", "/"}

\* the literal part of the pattern: cpu()=="
CpuEq == "cpu()==\""

\* the length of the longest run of IdentChars of s that starts at position i
RECURSIVE IdentRun(_, _)
IdentRun(s, i) ==
    IF i <= Len(s) /\ SubSeq(s, i, i) \in IdentChars THEN 1 + IdentRun(s, i + 1) ELSE 0

\* the matches of the pattern in s from position i on, left to right and not
\* overlapping: the literal, then a non-empty run of IdentChars (the capture),
\* then a double quote.  The run must be the longest one, since a shorter run is
\* followed by a character of the class and not by the quote.
RECURSIVE findall_from(_, _)
findall_from(s, i) ==
    IF i > Len(s) THEN <<>>
    ELSE LET j == i + Len(CpuEq)
             n == IdentRun(s, j)
         IN  IF /\ j - 1 <= Len(s)
                /\ SubSeq(s, i, j - 1) = CpuEq
                /\ n > 0
                /\ j + n <= Len(s)
                /\ SubSeq(s, j + n, j + n) = "\""
             THEN <<SubSeq(s, j, j + n - 1)>> \o findall_from(s, j + n + 1)
             ELSE findall_from(s, i + 1)

\* re.findall(r'cpu\(\)==\"([A-Za-z0-9/]+)\"', cond_str)
findall(cond_str) == findall_from(cond_str, 1)

\* mutant: the test for an empty CPU identifier is missing
evaluate_condition_noempty(cond_str, c) ==
    LET matches == findall(cond_str)
    IN  \E i \in 1..Len(matches) : matches[i] = c

\* mutant: every comparison found must hold, not just one of them
evaluate_condition_and(cond_str, c) ==
    LET matches == findall(cond_str)
    IN  IF c = "" THEN TRUE
        ELSE Len(matches) > 0 /\ \A i \in 1..Len(matches) : matches[i] = c

evaluate_condition(cond_str, c) ==
    LET matches == findall(cond_str)
    IN  IF c = "" THEN TRUE
        ELSE \E i \in 1..Len(matches) : matches[i] = c

\* mutant: tree.end leaves the whole tree, emptying the stack
_parse_tree_name_clear(stack, line) ==
    IF line.kind = "tree.end" THEN <<>>
    ELSE IF line.kind = "tree" THEN Append(stack, line.name)
    ELSE stack

_parse_tree_name(stack, line) ==
    IF line.kind = "tree.end"
    THEN IF Len(stack) > 0 THEN SubSeq(stack, 1, Len(stack) - 1) ELSE stack
    ELSE IF line.kind = "tree" THEN Append(stack, line.name)
    ELSE stack

_parse_base_addr(base, line) ==
    IF line.kind = "base" THEN line.addr ELSE base

\* mutant: an offset without the 0x prefix is read as hexadecimal, too
_calculate_address_hex(base_address, offset) ==
    LET o == IF contains(offset, ".") THEN rstrip(offset, ".") ELSE offset
    IN  IF IntValid(base_address, 16) /\ IntValid(o, 16)
        THEN int(base_address, 16) + int(o, 16)
        ELSE None

_calculate_address(base_address, offset) ==
    IF startswith(offset, <<"0", "x">>)
    THEN IF IntValid(base_address, 16) /\ IntValid(offset, 16)
         THEN int(base_address, 16) + int(offset, 16)
         ELSE None
    ELSE IF contains(offset, ".")
    THEN IF IntValid(base_address, 16) /\ IntValid(rstrip(offset, "."), 10)
         THEN int(base_address, 16) + int(rstrip(offset, "."), 10)
         ELSE None
    ELSE IF IntValid(base_address, 16) /\ IntValid(offset, 10)
         THEN int(base_address, 16) + int(offset, 10)
         ELSE None

\* mutant: the entry is returned without testing the computed address
_create_mapped_entry_unchecked(stack, type, address, offset, name) ==
    << [address |-> _calculate_address(address, offset), type |-> type, name |-> name,
        tree |-> TreePath(stack)] >>

\* Returns <<entry>> for a returned dict and <<>> for None
_create_mapped_entry(stack, type, address, offset, name) ==
    LET a == _calculate_address(address, offset)
        tree_name == TreePath(stack)
    IN  IF a # None /\ a # 0
        THEN << [address |-> a, type |-> type, name |-> name, tree |-> tree_name] >>
        ELSE <<>>

\* mutant: the look-ahead takes the quoted name of whatever line follows
_parse_mapped_name_anyname(ls, stack, base, idx, line) ==
    IF line.kind = "group"
    THEN LET name == IF line.name = NoneStr
                     THEN IF idx + 1 < Len(ls) /\ ls[idx + 2].kind \in {"line", "group"}
                          THEN ls[idx + 2].name
                          ELSE NoneStr
                     ELSE line.name
             baseAddr == IF line.baseAddr # NoneStr THEN line.baseAddr ELSE base
         IN  IF name # NoneStr
             THEN LET b0  == IF baseAddr = NoneStr THEN line.offset ELSE baseAddr
                      o0  == IF baseAddr = NoneStr THEN <<"0", "x", "0">> ELSE line.offset
                  IN  _create_mapped_entry(stack, line.type, rpartition3(b0, ":"),
                                           rpartition3(o0, ":"), strip(name))
             ELSE <<>>
    ELSE <<>>

\* Returns <<entry>> for a returned dict and <<>> for None
_parse_mapped_name(ls, stack, base, idx, line) ==
    IF line.kind = "group"
    THEN LET name == IF line.name = NoneStr
                     THEN IF idx + 1 < Len(ls) /\ ls[idx + 2].kind = "line"
                          THEN ls[idx + 2].name
                          ELSE NoneStr
                     ELSE line.name
             baseAddr == IF line.baseAddr # NoneStr THEN line.baseAddr ELSE base
         IN  IF name # NoneStr
             THEN LET b0  == IF baseAddr = NoneStr THEN line.offset ELSE baseAddr
                      o0  == IF baseAddr = NoneStr THEN <<"0", "x", "0">> ELSE line.offset
                  IN  _create_mapped_entry(stack, line.type, rpartition3(b0, ":"),
                                           rpartition3(o0, ":"), strip(name))
             ELSE <<>>
    ELSE <<>>

\* The conditional branches of parse(): each gives the new condition stack and flag
\* mutant: a sif sets the flag to its own result, ignoring the enclosing scope
on_sif_reset(stack, flag, cond_str, c) ==
    LET cond_result == evaluate_condition(cond_str, c)
    IN  [stack |-> Append(stack, <<cond_result, cond_result>>),
         flag  |-> cond_result]

on_sif(stack, flag, cond_str, c) ==
    LET cond_result == evaluate_condition(cond_str, c)
    IN  [stack |-> Append(stack, <<cond_result, cond_result>>),
         flag  |-> flag /\ cond_result]

\* mutant: an elif is evaluated even when an earlier branch of the block matched
on_elif_reeval(stack, flag, cond_str, c) ==
    IF Len(stack) > 0
    THEN LET cond_result == evaluate_condition(cond_str, c)
         IN  [stack |-> Append(SubSeq(stack, 1, Len(stack) - 1), <<cond_result, cond_result>>),
              flag  |-> cond_result]
    ELSE [stack |-> stack, flag |-> flag]

\* mutant: an elif after a matched branch drops the frame instead of re-pushing it
on_elif_drop(stack, flag, cond_str, c) ==
    IF Len(stack) > 0
    THEN LET already_matched == stack[Len(stack)][1]
             rest == SubSeq(stack, 1, Len(stack) - 1)
         IN  IF already_matched
             THEN [stack |-> rest, flag |-> FALSE]
             ELSE LET cond_result == evaluate_condition(cond_str, c)
                  IN  [stack |-> Append(rest, <<cond_result, cond_result>>),
                       flag  |-> cond_result]
    ELSE [stack |-> stack, flag |-> flag]

on_elif(stack, flag, cond_str, c) ==
    IF Len(stack) > 0
    THEN LET already_matched == stack[Len(stack)][1]
             rest == SubSeq(stack, 1, Len(stack) - 1)
         IN  IF already_matched
             THEN [stack |-> Append(rest, <<TRUE, FALSE>>), flag |-> FALSE]
             ELSE LET cond_result == evaluate_condition(cond_str, c)
                  IN  [stack |-> Append(rest, <<cond_result, cond_result>>),
                       flag  |-> cond_result]
    ELSE [stack |-> stack, flag |-> flag]

\* mutant: the else branch is taken whether or not an earlier branch matched
on_else_always(stack, flag) ==
    IF Len(stack) > 0
    THEN [stack |-> Append(SubSeq(stack, 1, Len(stack) - 1), <<TRUE, TRUE>>), flag |-> TRUE]
    ELSE [stack |-> stack, flag |-> flag]

\* mutant: the empty-stack guard is missing and a stray else opens a frame
on_else_unguarded(stack, flag) ==
    IF Len(stack) > 0 /\ stack[Len(stack)][1]
    THEN [stack |-> Append(SubSeq(stack, 1, Len(stack) - 1), <<TRUE, FALSE>>), flag |-> FALSE]
    ELSE [stack |-> Append(SubSeq(stack, 1, Len(stack) - 1), <<TRUE, TRUE>>), flag |-> TRUE]

on_else(stack, flag) ==
    IF Len(stack) > 0
    THEN LET already_matched == stack[Len(stack)][1]
             rest == SubSeq(stack, 1, Len(stack) - 1)
         IN  IF already_matched
             THEN [stack |-> Append(rest, <<TRUE, FALSE>>), flag |-> FALSE]
             ELSE [stack |-> Append(rest, <<TRUE, TRUE>>), flag |-> TRUE]
    ELSE [stack |-> stack, flag |-> flag]

\* mutant: the flag is recomputed over the stack as it was before the pop
on_endif_stale(stack, flag) ==
    LET rest == IF Len(stack) > 0 THEN SubSeq(stack, 1, Len(stack) - 1) ELSE stack
    IN  [stack |-> rest, flag |-> \A i \in 1..Len(stack) : stack[i][2]]

\* mutant: endif pops the frame and leaves the flag as it is
on_endif_keep(stack, flag) ==
    LET rest == IF Len(stack) > 0 THEN SubSeq(stack, 1, Len(stack) - 1) ELSE stack
    IN  [stack |-> rest, flag |-> flag]

on_endif(stack, flag) ==
    LET rest == IF Len(stack) > 0 THEN SubSeq(stack, 1, Len(stack) - 1) ELSE stack
    IN  [stack |-> rest, flag |-> \A i \in 1..Len(rest) : rest[i][2]]

\* mutant: the new entry is inserted at the front of the output
append_front(data, mapped_entry) == mapped_entry \o data

\* "if mapped_entry: self.parsed_data.append(mapped_entry)"
append(data, mapped_entry) == data \o mapped_entry

IsConditional(line) == line.kind \in {"sif", "elif", "else", "endif"}

----------------------------------------------------------------------------
(* Input files and CPU identifiers the parser is constructed with *)

\* no identifier, two the files compare with, and one that holds a character
\* outside the class [A-Za-z0-9/]
CPUs == {"", "X", "Y", "A-B"}

CondX == Cond(<<Cmp("cpu()", "X")>>, "||")

CondY == Cond(<<Cmp("cpu()", "Y")>>, "||")

CondXorY == Cond(<<Cmp("cpu()", "X"), Cmp("cpu()", "Y")>>, "||")

CondXandY == Cond(<<Cmp("cpu()", "X"), Cmp("cpu()", "Y")>>, "&&")

\* a condition without any cpu()=="..." comparison
CondNoCpu == Cond(<<Cmp("cpuis()", "X")>>, "||")

\* a comparison whose quoted text is not made of [A-Za-z0-9/] alone
CondDash == Cond(<<Cmp("cpu()", "A-B")>>, "||")

\* a comparison whose left side only ends in cpu()
CondPrefixed == Cond(<<Cmp("xcpu()", "X")>>, "||")

Conds == {CondX, CondY, CondXorY, CondXandY, CondNoCpu, CondDash, CondPrefixed}

\* group.long 0x10++0x3 "R1", group.long 0x20++0x3 "R2", group.long 0x30++0x3 "R3"
E1 == Group("long", NoneStr, <<"0", "x", "1", "0">>, <<"R", "1">>)

E2 == Group("long", NoneStr, <<"0", "x", "2", "0">>, <<"R", "2">>)

E3 == Group("long", NoneStr, <<"0", "x", "3", "0">>, <<"R", "3">>)

SeqsUpTo(S, n) == UNION {[1..k -> S] : k \in 0..n}

\* free mixes of conditional directives and an entry line, well-formed or not
CondAlphabet == {Sif(CondX), Sif(CondY), Elif(CondY), Else, Endif, E1}

CondFiles == SeqsUpTo(CondAlphabet, MaxLines)

\* one top-level conditional block with an entry in each branch
BlockFiles ==
    {<<Sif(c), E1, Else, E2, Endif>> : c \in Conds}
        \cup {<<Sif(c), E1, Elif(d), E2, Else, E3, Endif>> : c \in Conds, d \in Conds}

\* tree context around entries
TreeAlphabet == {Tree("A"), Tree("B"), TreeEnd, TreeOther, E1}

TreeFiles == SeqsUpTo(TreeAlphabet, MaxTreeLines)

\* address arithmetic: an optional base line, then one group line
OffsetChars == {"0", "1", "4", "a", "x", ".", ":"}

MaxOffsetLen == 3

Offsets ==
    (SeqsUpTo(OffsetChars, MaxOffsetLen) \ {<<>>})
        \cup {<<"0", "x", "1", "0">>, <<"0", "x", "2", "0", "0", "0">>,
              <<"a", "d", ":", "0", "x", "1", "0">>}

Hex1000 == <<"0", "x", "1", "0", "0", "0">>

Hex4000 == <<"0", "x", "4", "0", "0", "0">>

GroupLines ==
    {Group("long", ib, off, <<"R", "1">>) : ib \in {NoneStr, Hex4000}, off \in Offsets}

AddrFiles ==
    {<<g>> : g \in GroupLines} \cup {<<Base(Hex1000), g>> : g \in GroupLines}

\* name look-ahead: group.long 0x10++0x3 without a quoted name, around
\* line.long 0x00 "<tab>N ", line.long 0x00 " <tab>", other lines and a named
\* group line
G0 == Group("long", NoneStr, <<"0", "x", "1", "0">>, NoneStr)

LookAlphabet ==
    {G0, NameLine(<<"\t", "N", " ">>), NameLine(<<" ", "\t">>), Other, E1}

MaxLookLines == 3

LookFiles == SeqsUpTo(LookAlphabet, MaxLookLines)

\* tree and base lines inside and outside conditional branches, around the
\* offset-only entry group.long 4++0x3 "R1<tab>"
GOff == Group("long", NoneStr, <<"4">>, <<"R", "1", "\t">>)

GatedAlphabet ==
    {Sif(CondX), Endif, Tree("A"), TreeEnd, Base(Hex1000), Base(Hex4000), GOff}

MaxGatedLines == 4

GatedFiles == SeqsUpTo(GatedAlphabet, MaxGatedLines)

Files == CondFiles \cup BlockFiles \cup TreeFiles \cup AddrFiles \cup LookFiles \cup GatedFiles

----------------------------------------------------------------------------
(* Actions *)

\* mutant: parsed_data is shared by all parser objects (a class-level list)
__init__shared ==
    /\ pc = "idle"
    /\ obj_runs > 0
    /\ runs < MaxRuns
    /\ base_addr' = NoneStr
    /\ lines' = <<>>
    /\ tree_stack' = <<>>
    /\ condition_stack' = <<>>
    /\ should_consider' = TRUE
    /\ index' = 0
    /\ obj_runs' = 0
    /\ trace' = <<>>
    /\ sifs' = 0
    /\ pops' = 0
    /\ UNCHANGED <<file, cpu, pc, runs, first_output, parsed_data, origin>>

\* PerFileParser(filename, cpu) once more: a new parser object for the same file
\* and CPU identifier replaces the one already used
__init__ ==
    /\ pc = "idle"
    /\ obj_runs > 0
    /\ runs < MaxRuns
    /\ base_addr' = NoneStr
    /\ lines' = <<>>
    /\ tree_stack' = <<>>
    /\ parsed_data' = <<>>
    /\ condition_stack' = <<>>
    /\ should_consider' = TRUE
    /\ index' = 0
    /\ obj_runs' = 0
    /\ trace' = <<>>
    /\ origin' = <<>>
    /\ sifs' = 0
    /\ pops' = 0
    /\ UNCHANGED <<file, cpu, pc, runs, first_output>>

\* parse() is called (on a new parser or on one already used), lines 39-40: read the file
parse ==
    /\ pc = "idle"
    /\ runs < MaxRuns
    /\ lines' = file
    /\ index' = 0
    /\ pc' = "loop"
    /\ runs' = runs + 1
    /\ obj_runs' = obj_runs + 1
    /\ trace' = <<>>
    /\ UNCHANGED <<file, cpu, tree_stack, base_addr, condition_stack, should_consider,
                   parsed_data, first_output, origin, sifs, pops>>

\* mutant: the tree and base trackers run only on lines of an active branch
ProcessLine_gated ==
    /\ pc = "loop"
    /\ index < Len(lines)
    /\ LET line == lines[index + 1]
           ts   == IF should_consider THEN _parse_tree_name(tree_stack, line) ELSE tree_stack
           ba   == IF should_consider THEN _parse_base_addr(base_addr, line) ELSE base_addr
           cs   == IF line.kind = "sif"
                       THEN on_sif(condition_stack, should_consider, line.cond, cpu)
                   ELSE IF line.kind = "elif"
                       THEN on_elif(condition_stack, should_consider, line.cond, cpu)
                   ELSE IF line.kind = "else"
                       THEN on_else(condition_stack, should_consider)
                   ELSE IF line.kind = "endif"
                       THEN on_endif(condition_stack, should_consider)
                   ELSE [stack |-> condition_stack, flag |-> should_consider]
           mapped_entry == IF ~IsConditional(line) /\ should_consider
                           THEN _parse_mapped_name(lines, ts, ba, index, line)
                           ELSE <<>>
       IN  /\ tree_stack' = ts
           /\ base_addr' = ba
           /\ condition_stack' = cs.stack
           /\ should_consider' = cs.flag
           /\ parsed_data' = append(parsed_data, mapped_entry)
           /\ origin' = IF Len(mapped_entry) > 0 THEN Append(origin, <<obj_runs, index>>) ELSE origin
           /\ trace' = Append(trace, should_consider)
           /\ sifs' = IF line.kind = "sif" THEN sifs + 1 ELSE sifs
           /\ pops' = IF line.kind = "endif" /\ Len(condition_stack) > 0 THEN pops + 1 ELSE pops
    /\ index' = index + 1
    /\ UNCHANGED <<file, cpu, lines, pc, runs, obj_runs, first_output>>

\* one iteration of the for loop of parse(), lines 42-97
ProcessLine ==
    /\ pc = "loop"
    /\ index < Len(lines)
    /\ LET line == lines[index + 1]
           ts   == _parse_tree_name(tree_stack, line)
           ba   == _parse_base_addr(base_addr, line)
           cs   == IF line.kind = "sif"
                       THEN on_sif(condition_stack, should_consider, line.cond, cpu)
                   ELSE IF line.kind = "elif"
                       THEN on_elif(condition_stack, should_consider, line.cond, cpu)
                   ELSE IF line.kind = "else"
                       THEN on_else(condition_stack, should_consider)
                   ELSE IF line.kind = "endif"
                       THEN on_endif(condition_stack, should_consider)
                   ELSE [stack |-> condition_stack, flag |-> should_consider]
           mapped_entry == IF ~IsConditional(line) /\ should_consider
                           THEN _parse_mapped_name(lines, ts, ba, index, line)
                           ELSE <<>>
       IN  /\ tree_stack' = ts
           /\ base_addr' = ba
           /\ condition_stack' = cs.stack
           /\ should_consider' = cs.flag
           /\ parsed_data' = append(parsed_data, mapped_entry)
           /\ origin' = IF Len(mapped_entry) > 0 THEN Append(origin, <<obj_runs, index>>) ELSE origin
           /\ trace' = Append(trace, should_consider)
           /\ sifs' = IF line.kind = "sif" THEN sifs + 1 ELSE sifs
           /\ pops' = IF line.kind = "endif" /\ Len(condition_stack) > 0 THEN pops + 1 ELSE pops
    /\ index' = index + 1
    /\ UNCHANGED <<file, cpu, lines, pc, runs, obj_runs, first_output>>

\* the for loop is exhausted and parse() returns
parse_return ==
    /\ pc = "loop"
    /\ index = Len(lines)
    /\ pc' = "idle"
    /\ first_output' = IF runs = 1 THEN parsed_data ELSE first_output
    /\ UNCHANGED <<file, cpu, lines, index, tree_stack, base_addr, condition_stack,
                   should_consider, parsed_data, runs, obj_runs, trace, origin, sifs, pops>>

Next == __init__ \/ parse \/ ProcessLine \/ parse_return

\* PerFileParser.__init__
Init ==
    /\ file \in Files
    /\ cpu \in CPUs
    /\ lines = <<>>
    /\ index = 0
    /\ pc = "idle"
    /\ tree_stack = <<>>
    /\ base_addr = NoneStr
    /\ condition_stack = <<>>
    /\ should_consider = TRUE
    /\ parsed_data = <<>>
    /\ runs = 0
    /\ obj_runs = 0
    /\ first_output = <<>>
    /\ trace = <<>>
    /\ origin = <<>>
    /\ sifs = 0
    /\ pops = 0

Spec == Init /\ [][Next]_vars

----------------------------------------------------------------------------
(* Properties *)

\* the first parse() of the first parser object
FirstRun == runs = 1 /\ obj_runs = 1

FirstRunDone == FirstRun /\ pc = "idle"

\* the line at 0-based index idx produced an output entry in this object's run r
EmittedFrom(r, idx) == \E k \in 1..Len(origin) : origin[k] = <<r, idx>>

\* the entries the lines E1, E2, E3 resolve to outside any tree
Entry1 == [address |-> 16, type |-> "long", name |-> <<"R", "1">>, tree |-> ""]

Entry2 == [address |-> 32, type |-> "long", name |-> <<"R", "2">>, tree |-> ""]

Entry3 == [address |-> 48, type |-> "long", name |-> <<"R", "3">>, tree |-> ""]

\* AND of the blockActive component of every frame on the stack
AllFramesActive(stack) == \A i \in 1..Len(stack) : stack[i][2]

\* C1 (as claimed; refuted): with an empty CPU identifier no non-directive line is
\* gated by the conditional state, and the block sif/E1/else/E2/endif emits both
\* E1 and E2.
C1_EmptyCpuConsidersEveryBranch ==
    (cpu = "" /\ FirstRun) =>
        /\ \A i \in 1..Len(trace) : ~IsConditional(lines[i]) => trace[i]
        /\ (pc = "idle" /\ \E c \in Conds : file = <<Sif(c), E1, Else, E2, Endif>>)
               => (EmittedFrom(1, 1) /\ EmittedFrom(1, 3))

\* sif (cpu()=="id") / E1 / else / E2 / endif
SingleCmpBlock(id) == <<Sif(Cond(<<Cmp("cpu()", id)>>, "||")), E1, Else, E2, Endif>>

\* C2: for the top-level block sif (cpu()=="X") / E1 / else / E2 / endif and a
\* non-empty CPU identifier c, the output is exactly E1 when c equals X and
\* exactly E2 when c differs from X.
C2_ExactlyOneBranch ==
    \A id \in {"X", "Y"} :
        (file = SingleCmpBlock(id) /\ cpu # "" /\ FirstRunDone) =>
            parsed_data = IF cpu = id THEN <<Entry1>> ELSE <<Entry2>>

C2_Witness ==
    /\ file = SingleCmpBlock("X")
    /\ cpu = "Y"
    /\ FirstRunDone
    /\ parsed_data = <<Entry2>>
    /\ trace = <<TRUE, FALSE, FALSE, TRUE, TRUE>>

\* C3 (as claimed; refuted): should_consider equals the AND of blockActive over
\* every frame on the condition stack.
C3_FlagIsAndOfFrames ==
    should_consider = AllFramesActive(condition_stack)

\* the values __init__ gives the fields a parse works on
AtInitialValues ==
    /\ tree_stack = <<>>
    /\ base_addr = NoneStr
    /\ condition_stack = <<>>
    /\ should_consider = TRUE
    /\ parsed_data = <<>>

\* C4 (as claimed; refuted): a second parse() of the same file with the same CPU
\* identifier starts from the initial values of the first and yields the same
\* output, with no state carried over from the earlier run.
C4_SecondRunRepeatsFirst ==
    runs = 2 =>
        /\ (pc = "loop" /\ index = 0) => AtInitialValues
        /\ pc = "idle" => parsed_data = first_output

\* C4 (amended): a second parse() made on a newly constructed parser for the same
\* file and CPU identifier starts from the initial values of the first and yields
\* the same output.
C4_FreshParserRepeatsFirst ==
    (runs = 2 /\ obj_runs = 1) =>
        /\ (pc = "loop" /\ index = 0) => AtInitialValues
        /\ pc = "idle" => parsed_data = first_output

C4_Witness ==
    /\ runs = 2
    /\ obj_runs = 1
    /\ pc = "idle"
    /\ Len(first_output) > 0
    /\ parsed_data = first_output
    /\ condition_stack # <<>>

\* C5: every entry of the output has an address that is not None and is a
\* non-negative integer.
C5_AddressesAreDefined ==
    \A k \in 1..Len(parsed_data) :
        /\ parsed_data[k].address # None
        /\ parsed_data[k].address \in Nat

\* a parse has returned with entries in its output
C5_Witness ==
    /\ pc = "idle"
    /\ Len(parsed_data) > 0
    /\ \A k \in 1..Len(parsed_data) : parsed_data[k].address > 0

\* the literal of the most recent base line among the first n lines of ls
RECURSIVE LastBaseLiteral(_, _)
LastBaseLiteral(ls, n) ==
    IF n = 0 THEN NoneStr
    ELSE IF ls[n].kind = "base" THEN ls[n].addr
    ELSE LastBaseLiteral(ls, n - 1)

\* the value of a token in the given base, None when it is not a number of that base
ValueOf(s, base) == IF IntValid(s, base) THEN int(s, base) ELSE None

\* the address C6 states for a group line, given the tracked base address
ClaimedAddress(line, tracked) ==
    LET B   == IF line.baseAddr # NoneStr THEN line.baseAddr ELSE tracked
        tok == rpartition3(line.offset, ":")
        off == IF startswith(tok, <<"0", "x">>) THEN ValueOf(tok, 16)
               ELSE ValueOf(rstrip(tok, "."), 10)
    IN  IF B = NoneStr
        THEN ValueOf(tok, 16)
        ELSE IF ValueOf(rpartition3(B, ":"), 16) = None \/ off = None THEN None
        ELSE ValueOf(rpartition3(B, ":"), 16) + off

\* the address-resolution examples: <<file, address of its entry>>
AddressExamples ==
    { <<<<Base(Hex1000), Group("long", NoneStr, <<"0", "x", "1", "0">>, <<"R", "1">>)>>, 4112>>,
      <<<<Base(Hex1000), Group("long", NoneStr, <<"4", ".">>, <<"R", "1">>)>>, 4100>>,
      <<<<Base(Hex1000), Group("long", NoneStr, <<"4">>, <<"R", "1">>)>>, 4100>>,
      <<<<Group("long", NoneStr, <<"0", "x", "2", "0", "0", "0">>, <<"R", "1">>)>>, 8192>>,
      <<<<Base(Hex1000), Group("long", Hex4000, <<"0", "x", "1", "0">>, <<"R", "1">>)>>, 16400>>,
      <<<<Base(Hex1000), Group("long", NoneStr, <<"a", "d", ":", "0", "x", "1", "0">>, <<"R", "1">>)>>, 4112>> }

\* C6: the address of an emitted entry is hex(B) + off, with B the inline base
\* address of its group line if present, else the tracked base address, else the
\* offset token itself (off = 0); off is the offset read as hexadecimal if it
\* starts with 0x and as decimal, trailing dots stripped, otherwise; a label:
\* prefix is removed from both before they are read.
C6_AddressIsBasePlusOffset ==
    /\ \A k \in 1..Len(parsed_data) :
           origin[k][1] = 1 =>
               parsed_data[k].address =
                   ClaimedAddress(lines[origin[k][2] + 1], LastBaseLiteral(lines, origin[k][2]))
    /\ \A ex \in AddressExamples :
           (file = ex[1] /\ FirstRunDone) =>
               (Len(parsed_data) = 1 /\ parsed_data[1].address = ex[2])

\* base 0x1000, offset ":4." (empty label, decimal with a trailing dot) gives 0x1004
C6_Witness ==
    /\ FirstRunDone
    /\ file = <<Base(Hex1000), Group("long", NoneStr, <<":", "4", ".">>, <<"R", "1">>)>>
    /\ Len(parsed_data) = 1
    /\ parsed_data[1].address = 4100

\* the names on the tree stack after the first n lines of ls, bottom to top
RECURSIVE ClaimedTreeStack(_, _)
ClaimedTreeStack(ls, n) ==
    IF n = 0 THEN <<>>
    ELSE LET before == ClaimedTreeStack(ls, n - 1)
         IN  CASE ls[n].kind = "tree" -> before \o <<ls[n].name>>
               [] ls[n].kind = "tree.end" ->
                      IF before = <<>> THEN <<>> ELSE SubSeq(before, 1, Len(before) - 1)
               [] OTHER -> before

\* each name followed by ": "
RECURSIVE ClaimedTreeField(_)
ClaimedTreeField(names) ==
    IF names = <<>> THEN "" ELSE Head(names) \o ": " \o ClaimedTreeField(Tail(names))

\* C7: the tree field of an emitted entry is the names on the tree stack when its
\* line is processed, bottom to top, each followed by ": ", the stack being the
\* pushes (tree "<name>") and pops (tree.end, a no-op on an empty stack) of the
\* preceding lines; after tree "A", tree "B" it is "A: B: ", after a further
\* tree.end it is "A: ".
C7_TreeFieldIsStackPath ==
    /\ \A k \in 1..Len(parsed_data) :
           origin[k][1] = 1 =>
               parsed_data[k].tree = ClaimedTreeField(ClaimedTreeStack(lines, origin[k][2]))
    /\ (file = <<Tree("A"), Tree("B"), E1>> /\ FirstRunDone)
           => (Len(parsed_data) = 1 /\ parsed_data[1].tree = "A: B: ")
    /\ (file = <<Tree("A"), Tree("B"), TreeEnd, E1>> /\ FirstRunDone)
           => (Len(parsed_data) = 1 /\ parsed_data[1].tree = "A: ")

C7_Witness ==
    /\ FirstRunDone
    /\ file = <<Tree("A"), Tree("B"), TreeEnd, E1>>
    /\ Len(parsed_data) = 1
    /\ parsed_data[1].tree = "A: "

\* C8: during a parse the output is append-only: a step appends at most one entry
\* and leaves every entry emitted earlier, its tree field included, in place.
C8_OutputIsAppendOnly ==
    [][pc = "loop" =>
          /\ Len(parsed_data') \in {Len(parsed_data), Len(parsed_data) + 1}
          /\ SubSeq(parsed_data', 1, Len(parsed_data)) = parsed_data]_vars

\* two entries emitted under different tree stacks
C8_Witness ==
    /\ FirstRun
    /\ Len(parsed_data) = 2
    /\ parsed_data[1].tree = "A: "
    /\ parsed_data[2].tree = "A: B: "
    /\ tree_stack = <<"A", "B">>

\* the number of frames left open by ls: a sif opens one, an endif closes the
\* innermost open one if there is one
RECURSIVE OpenBlocks(_, _)
OpenBlocks(ls, n) ==
    IF n = 0 THEN 0
    ELSE LET before == OpenBlocks(ls, n - 1)
         IN  CASE ls[n].kind = "sif" -> before + 1
               [] ls[n].kind = "endif" -> IF before > 0 THEN before - 1 ELSE 0
               [] OTHER -> before

\* C9: the depth of the condition stack is the number of sif lines seen minus the
\* number of endif lines that found a non-empty stack (elif and else never change
\* it), so a file whose every sif is closed by an endif ends with an empty stack.
C9_DepthIsSifsMinusPops ==
    /\ Len(condition_stack) = sifs - pops
    /\ (obj_runs = 1 /\ pc = "loop") => Len(condition_stack) = OpenBlocks(lines, index)
    /\ (obj_runs = 1 /\ pc = "idle" /\ OpenBlocks(file, Len(file)) = 0) => condition_stack = <<>>

\* a block with an elif and an else has been opened and closed
C9_Witness ==
    /\ FirstRunDone
    /\ \E c \in Conds, d \in Conds : file = <<Sif(c), E1, Elif(d), E2, Else, E3, Endif>>
    /\ sifs = 1
    /\ pops = 1
    /\ condition_stack = <<>>

\* C10: an elif, else or endif line processed while the condition stack is empty
\* leaves the stack empty and should_consider as it was, and the scan goes on to
\* the next line.
C10_StrayDirectiveIsNoOp ==
    [][(/\ pc = "loop"
        /\ index < Len(lines)
        /\ lines[index + 1].kind \in {"elif", "else", "endif"}
        /\ condition_stack = <<>>)
          => (/\ condition_stack' = <<>>
              /\ should_consider' = should_consider
              /\ index' = index + 1
              /\ pc' = "loop")]_vars

\* a stray else, then a stray endif, were the first lines of a new parser's run
C10_Witness ==
    /\ FirstRun
    /\ pc = "loop"
    /\ index = 3
    /\ lines[1].kind = "else"
    /\ lines[2].kind = "endif"
    /\ lines[3].kind = "elif"
    /\ condition_stack = <<>>
    /\ should_consider

\* the loop is about to process the line at index
AtLine == pc = "loop" /\ index < Len(lines)

\* the line at 0-based index idx of ls is followed by a line the look-ahead pattern matches
NextLineNames(ls, idx) == idx + 1 < Len(ls) /\ ls[idx + 2].kind = "line"

\* C11: a considered group line without an inline name yields an entry only if
\* the next line exists and matches the look-ahead pattern; otherwise nothing is
\* emitted for it; either way the rest of the parser state is unaffected and the
\* scan goes on.
C11_NamelessGroupNeedsNameLine ==
    [][(/\ AtLine
        /\ lines[index + 1].kind = "group"
        /\ lines[index + 1].name = NoneStr
        /\ should_consider)
          => (/\ parsed_data' # parsed_data => NextLineNames(lines, index)
              /\ ~NextLineNames(lines, index) => parsed_data' = parsed_data
              /\ tree_stack' = tree_stack
              /\ base_addr' = base_addr
              /\ condition_stack' = condition_stack
              /\ should_consider' = should_consider
              /\ index' = index + 1
              /\ pc' = "loop")]_vars

\* a nameless group line named (and the name trimmed) by the next line, and one
\* at the end of the file and dropped
C11_Witness ==
    /\ FirstRunDone
    /\ file = <<G0, NameLine(<<"\t", "N", " ">>), G0>>
    /\ parsed_data = <<[address |-> 16, type |-> "long", name |-> <<"N">>, tree |-> ""]>>
    /\ origin = << <<1, 0>> >>
    /\ trace = <<TRUE, TRUE, TRUE>>

\* the text t occurs in the text s
Occurs(s, t) ==
    \E i \in 1..(Len(s) - Len(t) + 1) : SubSeq(s, i, i + Len(t) - 1) = t

\* c is an identifier: letters, digits and "/", at least one
IsIdent(c) ==
    Len(c) > 0 /\ \A i \in 1..Len(c) : SubSeq(c, i, i) \in IdentChars

\* what C12 and C13 state evaluate_condition returns: true for the empty CPU
\* identifier, and otherwise true iff c is the identifier of a substring
\* cpu()=="<IDENT>" of the condition
ClaimedEval(cond, c) ==
    \/ c = ""
    \/ IsIdent(c) /\ Occurs(cond, "cpu()==\"" \o c \o "\"")

\* C12: with an empty CPU identifier evaluate_condition is true for every
\* condition, with or without cpu() comparisons: every sif pushes (true, true).
C12_EmptyCpuEvaluatesTrue ==
    [][(AtLine /\ cpu = "" /\ lines[index + 1].kind = "sif")
          => condition_stack' = Append(condition_stack, <<TRUE, TRUE>>)]_vars

C12_Witness ==
    /\ FirstRun
    /\ cpu = ""
    /\ pc = "loop"
    /\ index = 1
    /\ lines[1] = Sif(CondNoCpu)
    /\ condition_stack = << <<TRUE, TRUE>> >>

\* C13: for a non-empty CPU identifier c, evaluate_condition is true iff c equals
\* an identifier (letters, digits, "/") of some cpu()=="<IDENT>" comparison of the
\* condition, whatever operator joins the comparisons: that is the result a sif
\* pushes, and an elif of a block without a match so far.
C13_TrueIffSomeIdentifierMatches ==
    [][(AtLine /\ cpu # "")
          => LET line == lines[index + 1]
                 n    == Len(condition_stack)
             IN  /\ line.kind = "sif" =>
                        condition_stack' = Append(condition_stack,
                            <<ClaimedEval(line.cond, cpu), ClaimedEval(line.cond, cpu)>>)
                 /\ (line.kind = "elif" /\ n > 0 /\ ~condition_stack[n][1]) =>
                        /\ condition_stack' = Append(SubSeq(condition_stack, 1, n - 1),
                               <<ClaimedEval(line.cond, cpu), ClaimedEval(line.cond, cpu)>>)
                        /\ should_consider' = ClaimedEval(line.cond, cpu)]_vars

\* cpu()=="X"&&cpu()=="Y" is true for X; the elif without a cpu() comparison is false
C13_Witness ==
    /\ FirstRunDone
    /\ cpu = "X"
    /\ file = <<Sif(CondY), E1, Elif(CondXandY), E2, Else, E3, Endif>>
    /\ parsed_data = <<Entry2>>

\* the quoted name of the group line at position i of ls, or of the line after it
ResolvedName(ls, i) ==
    IF ls[i].name # NoneStr THEN ls[i].name
    ELSE IF i < Len(ls) /\ ls[i + 1].kind = "line" THEN ls[i + 1].name
    ELSE NoneStr

\* C14 (as claimed; refuted): every considered group line with a resolved
\* non-empty name whose base address and offset both parse yields one entry with
\* address base + offset.
C14_ResolvableLineYieldsEntry ==
    FirstRun =>
        \A i \in 1..Len(trace) :
            (/\ trace[i]
             /\ lines[i].kind = "group"
             /\ ResolvedName(lines, i) # NoneStr
             /\ ClaimedAddress(lines[i], LastBaseLiteral(lines, i - 1)) # None)
                => \E k \in 1..Len(parsed_data) :
                       /\ origin[k] = <<1, i - 1>>
                       /\ parsed_data[k].address =
                              ClaimedAddress(lines[i], LastBaseLiteral(lines, i - 1))

\* C15: a sif pushes (result, result) and sets should_consider to its previous
\* value AND result: under a false flag it leaves the flag false whatever the
\* result, and still deepens the stack by one.
C15_SifAndsWithRunningFlag ==
    [][(AtLine /\ lines[index + 1].kind = "sif")
          => LET result == ClaimedEval(lines[index + 1].cond, cpu)
             IN  /\ condition_stack' = Append(condition_stack, <<result, result>>)
                 /\ should_consider' = (should_consider /\ result)
                 /\ ~should_consider => ~should_consider'
                 /\ Len(condition_stack') = Len(condition_stack) + 1]_vars

\* a sif whose condition is true, processed inside an inactive block
C15_Witness ==
    /\ FirstRun
    /\ cpu = "X"
    /\ pc = "loop"
    /\ index = 2
    /\ lines[1] = Sif(CondY)
    /\ lines[2] = Sif(CondX)
    /\ condition_stack = << <<FALSE, FALSE>>, <<TRUE, TRUE>> >>
    /\ ~should_consider

\* C16: in one block at most one branch has blockActive true: a frame is active
\* only if it is matched, a matched frame stays matched until it is removed, and
\* an elif or else on a matched frame makes it (true, false) and clears the flag.
C16_OneBranchPerBlock ==
    [][/\ \A i \in 1..Len(condition_stack) : condition_stack[i][2] => condition_stack[i][1]
       /\ AtLine =>
              LET line == lines[index + 1]
                  n    == Len(condition_stack)
              IN  /\ (line.kind \in {"elif", "else"} /\ n > 0 /\ condition_stack[n][1]) =>
                         /\ condition_stack' =
                                Append(SubSeq(condition_stack, 1, n - 1), <<TRUE, FALSE>>)
                         /\ ~should_consider'
                  /\ \A i \in 1..n :
                         (condition_stack[i][1] /\ i <= Len(condition_stack'))
                             => condition_stack'[i][1]]_vars

\* after a matching sif, both the elif that would match and the else are skipped
C16_Witness ==
    /\ FirstRun
    /\ cpu = "Y"
    /\ pc = "loop"
    /\ index = 3
    /\ lines = <<Sif(CondY), Elif(CondY), Else>>
    /\ trace = <<TRUE, TRUE, FALSE>>
    /\ condition_stack = << <<TRUE, FALSE>> >>
    /\ ~should_consider

\* C17: right after an endif, should_consider is the AND of blockActive over the
\* frames left on the stack (true for an empty stack), whatever it was inside
\* the closed block.
C17_EndifRestoresParentScope ==
    [][(AtLine /\ lines[index + 1].kind = "endif")
          => LET n == Len(condition_stack)
             IN  /\ condition_stack' =
                        IF n > 0 THEN SubSeq(condition_stack, 1, n - 1) ELSE <<>>
                 /\ should_consider' = AllFramesActive(condition_stack')]_vars

\* the inner block was being considered inside an inactive outer block; its
\* endif returns to the inactive outer scope
C17_Witness ==
    /\ FirstRun
    /\ cpu = "Y"
    /\ pc = "loop"
    /\ index = 4
    /\ lines = <<Sif(CondX), Sif(CondX), Else, Endif>>
    /\ trace = <<TRUE, FALSE, FALSE, TRUE>>
    /\ condition_stack = << <<FALSE, FALSE>> >>
    /\ ~should_consider

\* C18: the tree stack and the base address after each line depend on the lines
\* alone, not on the CPU identifier or the conditional state: they are the replay
\* of every preceding tree, tree.end and base line, inside an inactive branch or
\* not, and an offset-only entry resolves against the most recent base literal.
C18_TrackersIgnoreConditionals ==
    obj_runs = 1 =>
        /\ tree_stack = ClaimedTreeStack(lines, index)
        /\ base_addr = LastBaseLiteral(lines, index)
        /\ \A k \in 1..Len(parsed_data) :
               LET i == origin[k][2] + 1
               IN  (lines[i].baseAddr = NoneStr /\ LastBaseLiteral(lines, i - 1) # NoneStr) =>
                       parsed_data[k].address =
                           ClaimedAddress(lines[i], LastBaseLiteral(lines, i - 1))

\* a tree line and a base line inside an inactive branch set the tree and the
\* base address of the entry after the endif
C18_Witness ==
    /\ FirstRunDone
    /\ cpu = "Y"
    /\ file = <<Sif(CondX), Base(Hex4000), Endif, GOff>>
    /\ trace = <<TRUE, FALSE, FALSE, TRUE>>
    /\ Len(parsed_data) = 1
    /\ parsed_data[1].address = 16388

\* C19: whenever the condition stack is empty, should_consider is true.
C19_EmptyStackIsConsidered ==
    condition_stack = <<>> => should_consider

\* an unmatched block closed, then a stray endif and a stray else
C19_Witness ==
    /\ FirstRun
    /\ cpu = "Y"
    /\ pc = "loop"
    /\ index = 4
    /\ lines = <<Sif(CondX), Endif, Endif, Else>>
    /\ trace = <<TRUE, FALSE, TRUE, TRUE>>
    /\ condition_stack = <<>>
    /\ should_consider

====
